---- MODULE Spec2Model ----
(***************************************************************************)
(* Text-placement image analyzer (src/unnamed/part_000): the analysis core *)
(* (generateShapesToTest, findBestRectForGivenShape, analyzeImageCore),    *)
(* the text layout (wrapTextCanvas, renderTextWithDynamicSizing) and the   *)
(* page handlers that call them.                                           *)
(*                                                                         *)
(* Numbers.  The source computes in IEEE doubles.  The grid geometry       *)
(* (width / cols, index * cellWidthPx, Math.floor) is modelled in doubles, *)
(* bit for bit.  Colours, luminances and busyness are computed in exact    *)
(* rational arithmetic: a number is a pair <<n, d>> with d > 0 in lowest   *)
(* terms, and JavaScript's Infinity is the pair <<1, 0>>.  Luminance is    *)
(* kept in thousandths (0.299 -> 299).                                     *)
(***************************************************************************)
EXTENDS Integers, Sequences, FiniteSets, TLC

\* ------------------------------------------------------------------ bounds
MaxPixels == 4     \* images of at most MaxPixels pixels (width * height)
MaxRows == 3       \* grid rows up to MaxRows
MaxCols == 3       \* grid cols up to MaxCols
MaxArea == 2       \* target areas 1..MaxArea
MaxBe == 1         \* border exclusions 0..MaxBe
MaxSide == 3       \* uniform images up to MaxSide x MaxSide
PageMaxW == 4      \* the page's images: PageMaxW x 1 at most
PageMaxCols == 2   \* the page's grids: 1 x PageMaxCols at most
MaxTextLen == 5    \* texts of at most MaxTextLen characters
MaxWrapWidth == 3  \* wrap widths 0..MaxWrapWidth
GridMaxW == 51     \* one-row images up to GridMaxW pixels wide
GridMaxCols == 21  \* one-row grids up to GridMaxCols columns
MaxTasks == 2      \* at most MaxTasks callbacks pending at a time
MaxWait == 2       \* waitFor of 1..MaxWait clock ticks
MaxCalls == 3      \* at most MaxCalls calls of the debounced function
MaxTime == 5       \* the clock runs from 0 to MaxTime

\* Pixel colours of the modelled images: a dark grey and white.
Dark == <<10, 10, 10>>
White == <<255, 255, 255>>
Colors == {Dark, White}

\* ------------------------------------------------------- exact arithmetic
Abs(x) == IF x < 0 THEN -x ELSE x
Min2(a, b) == IF a < b THEN a ELSE b
Max2(a, b) == IF a > b THEN a ELSE b

RECURSIVE GCD(_, _)
GCD(a, b) == IF b = 0 THEN a ELSE GCD(b, a % b)
LCM(a, b) == (a \div GCD(a, b)) * b

Infinity == <<1, 0>>
IsInf(a) == a[2] = 0
RNormBy(n, d, g) == <<n \div g, d \div g>>
RNorm(n, d) == RNormBy(n, d, GCD(Abs(n), d))
RInt(k) == <<k, 1>>
\* a + b over the common denominator l
RAddOver(a, b, l) == RNorm(a[1] * (l \div a[2]) + b[1] * (l \div b[2]), l)
RAdd(a, b) ==
  IF IsInf(a) \/ IsInf(b) THEN Infinity ELSE RAddOver(a, b, LCM(a[2], b[2]))
RSub(a, b) == RAdd(a, <<-b[1], b[2]>>)
\* a * b with the cross factors g1, g2 cancelled first
RMulBy(a, b, g1, g2) ==
  RNorm((a[1] \div g1) * (b[1] \div g2), (a[2] \div g2) * (b[2] \div g1))
RMul(a, b) == RMulBy(a, b, GCD(Abs(a[1]), b[2]), GCD(Abs(b[1]), a[2]))
\* a / b for finite b > 0
RDiv(a, b) == RMul(a, <<b[2], b[1]>>)
RDivIntBy(a, k, g) == RNorm(a[1] \div g, a[2] * (k \div g))
RDivInt(a, k) ==
  IF IsInf(a) THEN Infinity ELSE RDivIntBy(a, k, GCD(Abs(a[1]), k))
RLessOver(a, b, l) == a[1] * (l \div a[2]) < b[1] * (l \div b[2])
RLess(a, b) ==
  IF IsInf(a) THEN FALSE
  ELSE IF IsInf(b) THEN TRUE
  ELSE RLessOver(a, b, LCM(a[2], b[2]))
RMax(a, b) == IF RLess(a, b) THEN b ELSE a
RMin(a, b) == IF RLess(b, a) THEN b ELSE a
\* Math.round of a finite, non-negative number
RRound(a) == (2 * a[1] + a[2]) \div (2 * a[2])

RECURSIVE RSum(_)
RSum(s) == IF s = <<>> THEN RInt(0) ELSE RAdd(s[1], RSum(Tail(s)))

\* ------------------------------------------------------------ IEEE doubles
\* The grid geometry multiplies an index by cellWidthPx = imgWidth / gridConfig.cols
\* and takes Math.floor; the division and the product each round to the 53-bit
\* significand of a double.  A double is [m |-> its significand bits, most
\* significant first, e |-> the exponent of the last bit]: its value is
\* ValueOf(m) * 2^e.  The integers involved (image and grid dimensions) are
\* below 2^15.
SIGNIFICAND_BITS == 53
\* Eight bits as a number, and back
Limb(bits, i) ==
  128 * bits[i] + 64 * bits[i + 1] + 32 * bits[i + 2] + 16 * bits[i + 3]
  + 8 * bits[i + 4] + 4 * bits[i + 5] + 2 * bits[i + 6] + bits[i + 7]
LimbBits(v) ==
  <<(v \div 128) % 2, (v \div 64) % 2, (v \div 32) % 2, (v \div 16) % 2,
    (v \div 8) % 2, (v \div 4) % 2, (v \div 2) % 2, v % 2>>
\* bits without its leading zeros
StripFrom(bits, first) == SubSeq(bits, first, Len(bits))
StripZeros(bits) ==
  IF \A j \in 1..Len(bits) : bits[j] = 0 THEN <<>>
  ELSE StripFrom(bits, CHOOSE j \in 1..Len(bits) :
                         bits[j] = 1 /\ \A k \in 1..(j - 1) : bits[k] = 0)
\* bits with leading zeros up to a length of n
PadTo(bits, n) == [j \in 1..(n - Len(bits)) |-> 0] \o bits
\* The bits of n, 0 <= n < 2^24, and the number of at most 24 bits
BitsOf(n) ==
  StripZeros(LimbBits(n \div 65536) \o LimbBits((n \div 256) % 256) \o LimbBits(n % 256))
ValueOfPadded(bits) == 65536 * Limb(bits, 1) + 256 * Limb(bits, 9) + Limb(bits, 17)
ValueOf(bits) == ValueOfPadded(PadTo(bits, 24))
\* bits + 1
IncAt(bits, z) == [j \in 1..Len(bits) |-> IF j < z THEN bits[j] ELSE IF j = z THEN 1 ELSE 0]
Inc(bits) ==
  IF \A j \in 1..Len(bits) : bits[j] = 1 THEN <<1>> \o [j \in 1..Len(bits) |-> 0]
  ELSE IncAt(bits, CHOOSE j \in 1..Len(bits) :
                     bits[j] = 0 /\ \A k \in (j + 1)..Len(bits) : bits[k] = 1)
\* The significand m, rounded up or not, renormalised to SIGNIFICAND_BITS
Renormalise(m, e) ==
  IF Len(m) > SIGNIFICAND_BITS THEN [m |-> SubSeq(m, 1, SIGNIFICAND_BITS), e |-> e + 1]
  ELSE [m |-> m, e |-> e]
RoundedUp(m, e, up) == IF up THEN Renormalise(Inc(m), e) ELSE [m |-> m, e |-> e]
\* n / d, n >= 1, 1 <= d < 2^15, rounded to nearest, ties to even.  The long
\* division yields the bits of n \div d and then eight bits after the point at a
\* time; FRACTION_LIMBS of them hold the leading zeros of a quotient below 1, the
\* significand and the bit that decides the rounding.
FRACTION_LIMBS == 9
RECURSIVE FractionFrom(_, _, _)
FractionFrom(rem, d, i) ==
  IF i > FRACTION_LIMBS THEN <<>>
  ELSE LimbBits((rem * 256) \div d) \o FractionFrom((rem * 256) % d, d, i + 1)
RECURSIVE RemainderFrom(_, _, _)
RemainderFrom(rem, d, i) ==
  IF i > FRACTION_LIMBS THEN rem ELSE RemainderFrom((rem * 256) % d, d, i + 1)
\* The quotient bits from the first 1 on (first), rounded: the bit after the
\* significand decides, a tie goes to the even significand
RoundQuotient(bits, first, ilen, rem) ==
  RoundedUp(SubSeq(bits, first, first + SIGNIFICAND_BITS - 1),
            ilen - (first + SIGNIFICAND_BITS - 1),
            bits[first + SIGNIFICAND_BITS] = 1
            /\ (bits[first + SIGNIFICAND_BITS - 1] = 1 \/ rem # 0
                \/ \E j \in (first + SIGNIFICAND_BITS + 1)..Len(bits) : bits[j] = 1))
QuotientOf(bits, ilen, rem) ==
  RoundQuotient(bits, CHOOSE j \in 1..Len(bits) :
                        bits[j] = 1 /\ \A k \in 1..(j - 1) : bits[k] = 0,
                ilen, rem)
DivideWith(ibits, r, d) ==
  QuotientOf(ibits \o FractionFrom(r, d, 1), Len(ibits), RemainderFrom(r, d, 1))
\* The same double with the trailing zeros of its significand moved into the
\* exponent
ShortestTo(x, last) == [m |-> SubSeq(x.m, 1, last), e |-> x.e + Len(x.m) - last]
Shortest(x) == ShortestTo(x, CHOOSE j \in 1..Len(x.m) :
                               x.m[j] = 1 /\ \A k \in (j + 1)..Len(x.m) : x.m[k] = 0)
DoubleDiv(n, d) == Shortest(DivideWith(BitsOf(n \div d), n % d, d))
\* The bits of bits * k for 0 <= k < 2^15, eight bits at a time from the limb at i
\* down, with a carry
RECURSIVE TimesFrom(_, _, _, _)
TimesLimb(bits, k, i, product) ==
  TimesFrom(bits, k, i - 8, product \div 256) \o LimbBits(product % 256)
TimesFrom(bits, k, i, carry) ==
  IF i < 1 THEN BitsOf(carry)
  ELSE TimesLimb(bits, k, i, Limb(bits, i) * k + carry)
Times(bits, k) == StripZeros(TimesFrom(bits, k, Len(bits) - 7, 0))
\* An exact product rounded to SIGNIFICAND_BITS, to nearest, ties to even
RoundProduct(bits, e) ==
  IF Len(bits) <= SIGNIFICAND_BITS THEN [m |-> bits, e |-> e]
  ELSE RoundedUp(SubSeq(bits, 1, SIGNIFICAND_BITS), e + Len(bits) - SIGNIFICAND_BITS,
                 bits[SIGNIFICAND_BITS + 1] = 1
                 /\ (bits[SIGNIFICAND_BITS] = 1
                     \/ \E j \in (SIGNIFICAND_BITS + 2)..Len(bits) : bits[j] = 1))
DoubleTimes(k, x) == RoundProduct(Times(PadTo(x.m, 8 * ((Len(x.m) + 7) \div 8)), k), x.e)
\* Math.floor of a double 0 <= x < 2^24
DoubleFloor(x) ==
  IF x.e >= 0 THEN ValueOf(x.m \o [j \in 1..x.e |-> 0])
  ELSE IF 0 - x.e >= Len(x.m) THEN 0
  ELSE ValueOf(SubSeq(x.m, 1, Len(x.m) + x.e))
\* imgWidth / gridConfig.cols: a positive number over zero is Infinity
DoubleInfinity == [m |-> <<>>, e |-> 0, infinite |-> TRUE]
DoubleQuotient(n, d) == IF d = 0 THEN DoubleInfinity ELSE DoubleDiv(n, d)
\* Math.floor(k * x) for an index k and a finite double x
FloorOfProduct(k, x) == DoubleFloor(DoubleTimes(k, x))

\* ------------------------------------------------------------ colour math
LUM_SCALE == 1000
\* getLuminance: 0.299 r + 0.587 g + 0.114 b, channels rational
getLuminance(r, g, b) ==
  RDivInt(RAdd(RAdd(RMul(RInt(299), r), RMul(RInt(587), g)), RMul(RInt(114), b)),
          LUM_SCALE)
\* 0.05 * 255
ContrastOffset == <<51, 4>>
\* (lighterLum + 0.05 * 255) / (darkerLum + 0.05 * 255)
ContrastOfLuminances(lum1, lum2) ==
  RDiv(RAdd(RMax(lum1, lum2), ContrastOffset), RAdd(RMin(lum1, lum2), ContrastOffset))
calculateContrastRatio(color1, color2) ==
  ContrastOfLuminances(getLuminance(color1[1], color1[2], color1[3]),
                       getLuminance(color2[1], color2[2], color2[3]))

\* ------------------------------------------------------ shape generation
\* Math.round(Math.sqrt(n / d)) for n >= 0, d > 0
RECURSIVE RoundSqrtFrom(_, _, _)
RoundSqrtFrom(n, d, k) ==
  IF 4 * n < (2 * k + 1) * (2 * k + 1) * d THEN k ELSE RoundSqrtFrom(n, d, k + 1)
RoundSqrt(n, d) == RoundSqrtFrom(n, d, 0)
CeilDiv(a, b) == (a + b - 1) \div b

ShapeName(r, c) ==
  IF 4 * Abs(r - c) <= Max2(4, Min2(r, c)) THEN "square"
  ELSE IF 4 * c > 5 * r THEN "landscape"
  ELSE IF 4 * r > 5 * c THEN "portrait"
  ELSE "near-square"

\* addShape without the shapes.has(key) test
addShape_NoKeyTest(shapes, r, c, targetArea, maxRows, maxCols) ==
  IF r <= 0 \/ c <= 0 \/ r > maxRows \/ c > maxCols \/ 5 * r * c < 4 * targetArea
  THEN shapes
  ELSE Append(shapes, [name |-> ShapeName(r, c), rows |-> r, cols |-> c])
\* addShape: the shapes map (insertion-ordered) after one call
addShape(shapes, r, c, targetArea, maxRows, maxCols) ==
  IF r <= 0 \/ c <= 0 \/ r > maxRows \/ c > maxCols \/ 5 * r * c < 4 * targetArea
  THEN shapes
  ELSE IF \E i \in 1..Len(shapes) : shapes[i].rows = r /\ shapes[i].cols = c
  THEN shapes
  ELSE Append(shapes, [name |-> ShapeName(r, c), rows |-> r, cols |-> c])

\* The (r, c) arguments of the addShape calls, in the order of the calls
ShapeAttempts(targetArea, maxRows, maxCols) ==
  LET r_s == Max2(1, RoundSqrt(targetArea, 1))
      c_s == Max2(1, CeilDiv(targetArea, r_s))
      r_ls == Max2(1, RoundSqrt(5 * targetArea, 9))
      c_ls0 == Max2(1, CeilDiv(targetArea, r_ls))
      c_ls == IF r_ls * c_ls0 < targetArea /\ c_ls0 < maxCols THEN c_ls0 + 1 ELSE c_ls0
      c_pt == Max2(1, RoundSqrt(5 * targetArea, 9))
      r_pt0 == Max2(1, CeilDiv(targetArea, c_pt))
      r_pt == IF r_pt0 * c_pt < targetArea /\ r_pt0 < maxRows THEN r_pt0 + 1 ELSE r_pt0
  IN <<<<r_s, c_s>>, <<c_s, r_s>>, <<r_ls, c_ls>>, <<r_pt, c_pt>>>>
     \o (IF targetArea <= maxCols
         THEN <<<<1, Min2(maxCols, Max2(targetArea, CeilDiv(targetArea, 1)))>>>>
         ELSE <<>>)
     \o (IF targetArea <= maxRows
         THEN <<<<Min2(maxRows, Max2(targetArea, CeilDiv(targetArea, 1))), 1>>>>
         ELSE <<>>)
     \o <<<<r_s + 1, c_s>>, <<r_s, c_s + 1>>>>
\* The shapes map after the addShape calls from the i-th on
RECURSIVE AddShapes(_, _, _, _, _, _)
AddShapes(shapes, attempts, i, targetArea, maxRows, maxCols) ==
  IF i > Len(attempts) THEN shapes
  ELSE AddShapes(addShape(shapes, attempts[i][1], attempts[i][2], targetArea, maxRows, maxCols),
                 attempts, i + 1, targetArea, maxRows, maxCols)
generateShapesToTest(targetArea, maxRows, maxCols) ==
  AddShapes(<<>>, ShapeAttempts(targetArea, maxRows, maxCols), 1, targetArea, maxRows, maxCols)

\* ------------------------------------------------------------ JS strings
\* A string is a sequence of one-character strings.
Digit(k) == <<"0", "1", "2", "3", "4", "5", "6", "7", "8", "9">>[k + 1]
DigitChars == {"0", "1", "2", "3", "4", "5", "6", "7", "8", "9"}
DigitValue(ch) == CHOOSE k \in 0..9 : Digit(k) = ch
\* String(n) for an integer n >= 0: decimal digits, no padding
RECURSIVE IntToStr(_)
IntToStr(n) == IF n < 10 THEN <<Digit(n)>> ELSE IntToStr(n \div 10) \o <<Digit(n % 10)>>
StrBlack == <<"b", "l", "a", "c", "k">>
StrWhite == <<"w", "h", "i", "t", "e">>
\* `rgb(${R}, ${G}, ${B})`
FormatRgb(r, g, b) ==
  <<"r", "g", "b", "(">> \o IntToStr(r) \o <<",", " ">> \o IntToStr(g)
    \o <<",", " ">> \o IntToStr(b) \o <<")">>
\* text.substring(from, to), 0-based, to exclusive, clipped to the length
SubstringAt(s, b, e) == IF e <= b THEN <<>> ELSE SubSeq(s, b + 1, e)
Substring(s, from, to) == SubstringAt(s, Min2(from, Len(s)), Min2(to, Len(s)))
\* parseInt(s): skips leading blanks, reads the leading digits; NaN if none
NaN == [nan |-> TRUE, val |-> 0]
Num(k) == [nan |-> FALSE, val |-> k]
RECURSIVE SkipBlanks(_)
SkipBlanks(s) == IF s # <<>> /\ s[1] = " " THEN SkipBlanks(Tail(s)) ELSE s
RECURSIVE ReadDigits(_, _, _)
ReadDigits(s, acc, any) ==
  IF s # <<>> /\ s[1] \in DigitChars
  THEN ReadDigits(Tail(s), 10 * acc + DigitValue(s[1]), TRUE)
  ELSE IF any THEN Num(acc) ELSE NaN
parseInt(s) == ReadDigits(SkipBlanks(s), 0, FALSE)
\* chosenTextColor.match(/rgb\((\d+),\s*(\d+),\s*(\d+)\)/): the three captured
\* digit groups; ok is FALSE when the string does not match
Null == [null |-> TRUE]
NoMatch == [ok |-> FALSE, groups |-> <<>>]
RECURSIVE TakeDigits(_)
TakeDigits(s) ==
  IF s # <<>> /\ s[1] \in DigitChars THEN <<s[1]>> \o TakeDigits(Tail(s)) ELSE <<>>
Drop(s, k) == SubSeq(s, k + 1, Len(s))
\* A run of digits at the head of s, and what follows it
DigitGroupOf(s, digits) == [digits |-> digits, rest |-> Drop(s, Len(digits))]
DigitGroup(s) == DigitGroupOf(s, TakeDigits(s))
\* A digit group was read and the character sep follows
GroupEndsWith(g, sep) == g.digits # <<>> /\ g.rest # <<>> /\ g.rest[1] = sep
MatchRgbThird(g1, g2, g3) ==
  IF GroupEndsWith(g3, ")")
  THEN [ok |-> TRUE, groups |-> <<g1.digits, g2.digits, g3.digits>>]
  ELSE NoMatch
MatchRgbSecond(g1, g2) ==
  IF GroupEndsWith(g2, ",")
  THEN MatchRgbThird(g1, g2, DigitGroup(SkipBlanks(Tail(g2.rest))))
  ELSE NoMatch
MatchRgbFirst(g1) ==
  IF GroupEndsWith(g1, ",")
  THEN MatchRgbSecond(g1, DigitGroup(SkipBlanks(Tail(g1.rest))))
  ELSE NoMatch
MatchRgb(s) ==
  IF Len(s) < 4 \/ SubSeq(s, 1, 4) # <<"r", "g", "b", "(">> THEN NoMatch
  ELSE MatchRgbFirst(DigitGroup(Drop(s, 4)))

\* -------------------------------------------------------- cell statistics
RECURSIVE IntSum(_)
IntSum(s) == IF s = <<>> THEN 0 ELSE s[1] + IntSum(Tail(s))

\* The deviation taken from zero instead of the mean
Deviation_FromZero(l, avgL) == l
\* l - avgL, the deviation squared and averaged into busyness
Deviation(l, avgL) == RSub(l, avgL)

\* The pixels of a cell in the order the pixel loops visit them
CellPixels(imageData, cellX, cellY, cCellWidth, pCount) ==
  [k \in 1..pCount |->
     imageData.data[(cellY + ((k - 1) \div cCellWidth)) * imageData.width
                    + cellX + ((k - 1) % cCellWidth)]]
\* sumR, sumG, sumB: the sum of channel ch over the pixels
ChannelSum(px, pCount, ch) == IntSum([k \in 1..pCount |-> px[k][ch]])
\* The luminances array
Luminances(px, pCount) ==
  [k \in 1..pCount |-> getLuminance(RInt(px[k][1]), RInt(px[k][2]), RInt(px[k][3]))]
Square(x) == RMul(x, x)
\* The mean of the squared deviations from avgL
BusynessOf(luminances, pCount, avgL) ==
  RDivInt(RSum([k \in 1..pCount |-> Square(Deviation(luminances[k], avgL))]), pCount)
\* The CellStat of a cell, a cell without pixels scoring as the quietest
CellStatFrom_EmptyIsQuiet(px, pCount, luminances) ==
  IF pCount = 0
  THEN [avgColor |-> <<RInt(0), RInt(0), RInt(0)>>, busyness |-> RInt(0)]
  ELSE [avgColor |-> <<RNorm(ChannelSum(px, pCount, 1), pCount),
                       RNorm(ChannelSum(px, pCount, 2), pCount),
                       RNorm(ChannelSum(px, pCount, 3), pCount)>>,
        busyness |-> BusynessOf(luminances, pCount, RDivInt(RSum(luminances), pCount))]
\* The CellStat pushed for a cell with the given pixels
CellStatFrom(px, pCount, luminances) ==
  IF pCount = 0
  THEN [avgColor |-> <<RInt(0), RInt(0), RInt(0)>>, busyness |-> Infinity]
  ELSE [avgColor |-> <<RNorm(ChannelSum(px, pCount, 1), pCount),
                       RNorm(ChannelSum(px, pCount, 2), pCount),
                       RNorm(ChannelSum(px, pCount, 3), pCount)>>,
        busyness |-> BusynessOf(luminances, pCount, RDivInt(RSum(luminances), pCount))]
CellStatOfPixels(px, pCount) == CellStatFrom(px, pCount, Luminances(px, pCount))
\* The cell spanning cCellWidth x cCellHeight pixels from (cellX, cellY)
CellStatIn(imageData, cellX, cellY, cCellWidth, cCellHeight) ==
  CellStatOfPixels(CellPixels(imageData, cellX, cellY, cCellWidth, cCellWidth * cCellHeight),
                   cCellWidth * cCellHeight)
\* The pixel boundaries of column c and row r: Math.floor(c * cellWidthPx) and
\* Math.floor(r * cellHeightPx)
CellX(cellWidthPx, c) == FloorOfProduct(c, cellWidthPx)
CellY(cellHeightPx, r) == FloorOfProduct(r, cellHeightPx)
\* cCellWidth and cCellHeight, given cellX and cellY
CCellWidth(cellWidthPx, c, cellX) == FloorOfProduct(c + 1, cellWidthPx) - cellX
CCellHeight(cellHeightPx, r, cellY) == FloorOfProduct(r + 1, cellHeightPx) - cellY
CellStatFromCorner(imageData, cellWidthPx, cellHeightPx, r, c, cellX, cellY) ==
  CellStatIn(imageData, cellX, cellY, CCellWidth(cellWidthPx, c, cellX),
             CCellHeight(cellHeightPx, r, cellY))
\* One iteration of the statistics loop: the CellStat of cell (r, c)
CellStatAt(imageData, cellWidthPx, cellHeightPx, r, c) ==
  CellStatFromCorner(imageData, cellWidthPx, cellHeightPx, r, c,
                     CellX(cellWidthPx, c), CellY(cellHeightPx, r))
CellStatOf(imageData, gridConfig, r, c) ==
  CellStatAt(imageData, DoubleQuotient(imageData.width, gridConfig.cols),
             DoubleQuotient(imageData.height, gridConfig.rows), r, c)

\* the source's currentCellStats[r * cols + c] is the element r * cols + c + 1
RECURSIVE PushCellStats(_, _, _, _, _)
PushCellStats(imageData, gridConfig, cellWidthPx, cellHeightPx, i) ==
  IF i >= gridConfig.rows * gridConfig.cols THEN <<>>
  ELSE <<CellStatAt(imageData, cellWidthPx, cellHeightPx,
                    i \div gridConfig.cols, i % gridConfig.cols)>>
       \o PushCellStats(imageData, gridConfig, cellWidthPx, cellHeightPx, i + 1)
ComputeCellStats(imageData, gridConfig, cellWidthPx, cellHeightPx) ==
  PushCellStats(imageData, gridConfig, cellWidthPx, cellHeightPx, 0)

\* cellX, cellY, cCellWidth and cCellHeight as the statistics loops compute them
\* for cell (r, c)
CellRangeFromCorner(cellWidthPx, cellHeightPx, r, c, cellX, cellY) ==
  [cellX |-> cellX, cellY |-> cellY,
   cCellWidth |-> CCellWidth(cellWidthPx, c, cellX),
   cCellHeight |-> CCellHeight(cellHeightPx, r, cellY)]
CellRangeAt(cellWidthPx, cellHeightPx, r, c) ==
  CellRangeFromCorner(cellWidthPx, cellHeightPx, r, c,
                      CellX(cellWidthPx, c), CellY(cellHeightPx, r))
\* The ranges of all cells, in the order of the loops
CellRangesWith(gridConfig, cellWidthPx, cellHeightPx) ==
  [i \in 1..(gridConfig.rows * gridConfig.cols) |->
     CellRangeAt(cellWidthPx, cellHeightPx,
                 (i - 1) \div gridConfig.cols, (i - 1) % gridConfig.cols)]
CellRanges(imageData, gridConfig) ==
  CellRangesWith(gridConfig, DoubleQuotient(imageData.width, gridConfig.cols),
                 DoubleQuotient(imageData.height, gridConfig.rows))

\* -------------------------------------------------------- rectangle search
\* The cellIndex values the offset loops visit for position (rStart, cStart)
CoveredIndexes(shapeToFind, currentGridConfig, rStart, cStart) ==
  [k \in 1..(shapeToFind.rows * shapeToFind.cols) |->
     (rStart + ((k - 1) \div shapeToFind.cols)) * currentGridConfig.cols
     + cStart + ((k - 1) % shapeToFind.cols)]
\* avgBusynessForRect: currentRectBusynessSum / pixelCount
AvgBusynessForRect(shapeToFind, cellStats, idx) ==
  RDivInt(RSum([k \in 1..Len(idx) |-> cellStats[idx[k] + 1].busyness]), Len(idx))
\* rectSumR / pixelCount and its two siblings
RectAvgChannel(cellStats, idx, ch) ==
  RDivInt(RSum([k \in 1..Len(idx) |-> cellStats[idx[k] + 1].avgColor[ch]]), Len(idx))
\* The bestRect object literal assigned when a position improves on the minimum
RectAt(shapeToFind, cellStats, idx, cellWidthPx, cellHeightPx, rStart, cStart, avgBusynessForRect) ==
  [x |-> FloorOfProduct(cStart, cellWidthPx),
   y |-> FloorOfProduct(rStart, cellHeightPx),
   width |-> FloorOfProduct(shapeToFind.cols, cellWidthPx),
   height |-> FloorOfProduct(shapeToFind.rows, cellHeightPx),
   avgColor |-> <<RectAvgChannel(cellStats, idx, 1), RectAvgChannel(cellStats, idx, 2),
                  RectAvgChannel(cellStats, idx, 3)>>,
   rStart |-> rStart, cStart |-> cStart,
   avgBusyness |-> avgBusynessForRect,
   shape |-> shapeToFind]

\* The row loop bound without the border exclusion
MaxRStart_NoBorder(shapeToFind, currentGridConfig, borderExclusion) ==
  currentGridConfig.rows - shapeToFind.rows
MaxRStart(shapeToFind, currentGridConfig, borderExclusion) ==
  currentGridConfig.rows - shapeToFind.rows - borderExclusion
MaxCStart(shapeToFind, currentGridConfig, borderExclusion) ==
  currentGridConfig.cols - shapeToFind.cols - borderExclusion
\* avgBusynessForRect <= minAvgBusyness, where a later tie wins
Improves_OrEqual(avgBusynessForRect, minAvgBusyness) ==
  ~RLess(minAvgBusyness, avgBusynessForRect)
\* avgBusynessForRect < minAvgBusyness
Improves(avgBusynessForRect, minAvgBusyness) == RLess(avgBusynessForRect, minAvgBusyness)

\* The position loops from the k-th position on (row-major, rStart outer), and
\* the comparison of the candidate computed for a position
RECURSIVE ScanPositions(_, _, _, _, _, _, _, _, _)
ConsiderCandidate(shapeToFind, cellStats, currentGridConfig, cellWidthPx, cellHeightPx, borderExclusion, k, bestRect, minAvgBusyness, rStart, cStart, idx, avgBusynessForRect) ==
  IF Improves(avgBusynessForRect, minAvgBusyness)
  THEN ScanPositions(shapeToFind, cellStats, currentGridConfig, cellWidthPx,
                     cellHeightPx, borderExclusion, k + 1,
                     RectAt(shapeToFind, cellStats, idx, cellWidthPx, cellHeightPx,
                            rStart, cStart, avgBusynessForRect),
                     avgBusynessForRect)
  ELSE ScanPositions(shapeToFind, cellStats, currentGridConfig, cellWidthPx,
                     cellHeightPx, borderExclusion, k + 1, bestRect, minAvgBusyness)
PositionAt(shapeToFind, cellStats, currentGridConfig, cellWidthPx, cellHeightPx, borderExclusion, k, bestRect, minAvgBusyness, rStart, cStart, idx) ==
  ConsiderCandidate(shapeToFind, cellStats, currentGridConfig, cellWidthPx, cellHeightPx,
                    borderExclusion, k, bestRect, minAvgBusyness, rStart, cStart, idx,
                    AvgBusynessForRect(shapeToFind, cellStats, idx))
ScanPositions(shapeToFind, cellStats, currentGridConfig, cellWidthPx, cellHeightPx, borderExclusion, k, bestRect, minAvgBusyness) ==
  LET nC == MaxCStart(shapeToFind, currentGridConfig, borderExclusion) - borderExclusion + 1
      nR == MaxRStart(shapeToFind, currentGridConfig, borderExclusion) - borderExclusion + 1
  IN IF nR <= 0 \/ nC <= 0 \/ k >= nR * nC THEN bestRect
     ELSE PositionAt(shapeToFind, cellStats, currentGridConfig, cellWidthPx,
                     cellHeightPx, borderExclusion, k, bestRect, minAvgBusyness,
                     borderExclusion + (k \div nC), borderExclusion + (k % nC),
                     CoveredIndexes(shapeToFind, currentGridConfig,
                                    borderExclusion + (k \div nC),
                                    borderExclusion + (k % nC)))

findBestRectForGivenShape(shapeToFind, cellStats, currentGridConfig, cellWidthPx, cellHeightPx, borderExclusion) ==
  IF shapeToFind.rows + 2 * borderExclusion > currentGridConfig.rows
     \/ shapeToFind.cols + 2 * borderExclusion > currentGridConfig.cols
  THEN Null
  ELSE ScanPositions(shapeToFind, cellStats, currentGridConfig, cellWidthPx,
                     cellHeightPx, borderExclusion, 0, Null, Infinity)

\* overallBestRect after one shape's rectInfoForShape
KeepBetter(overallBestRect, rectInfoForShape) ==
  IF rectInfoForShape # Null
     /\ (overallBestRect = Null
         \/ RLess(rectInfoForShape.avgBusyness, overallBestRect.avgBusyness))
  THEN rectInfoForShape
  ELSE overallBestRect
\* The loop over shapesToTest from the i-th shape on
RECURSIVE ScanShapes(_, _, _, _, _, _, _, _)
ScanShapes(shapesToTest, cellStats, gridConfig, cellWidthPx, cellHeightPx, borderExclusion, i, overallBestRect) ==
  IF i > Len(shapesToTest) THEN overallBestRect
  ELSE ScanShapes(shapesToTest, cellStats, gridConfig, cellWidthPx, cellHeightPx,
                  borderExclusion, i + 1,
                  KeepBetter(overallBestRect,
                             findBestRectForGivenShape(shapesToTest[i], cellStats, gridConfig,
                                                       cellWidthPx, cellHeightPx,
                                                       borderExclusion)))
\* ------------------------------------------------------- analyzeImageCore
MsgNoShapes == "Could not generate valid shapes. Try reducing border exclusion or increasing grid/target area."
MsgMainNull == "Main analysis could not find a suitable area."
MsgSuccess == "Analysis complete! Best area"

\* getLuminance(bg) > 128 ? 'black' : 'white'
BlackOrWhite(rectBgColor) ==
  IF RLess(RInt(128), getLuminance(rectBgColor[1], rectBgColor[2], rectBgColor[3]))
  THEN StrBlack ELSE StrWhite

\* The scan over the rectangle's cells for the best-contrast cell colour, from the
\* k-th covered cell on
RECURSIVE ScanContrast(_, _, _, _, _, _)
ConsiderCell(rect, cellStats, gridConfig, k, maxContrast, bestContrastCellColor, cellAvgColor, contrast) ==
  IF RLess(maxContrast, contrast)
  THEN ScanContrast(rect, cellStats, gridConfig, k + 1, contrast, cellAvgColor)
  ELSE ScanContrast(rect, cellStats, gridConfig, k + 1, maxContrast, bestContrastCellColor)
ContrastOfCell(rect, cellStats, gridConfig, k, maxContrast, bestContrastCellColor, cellAvgColor) ==
  ConsiderCell(rect, cellStats, gridConfig, k, maxContrast, bestContrastCellColor,
               cellAvgColor, calculateContrastRatio(cellAvgColor, rect.avgColor))
ScanContrast(rect, cellStats, gridConfig, k, maxContrast, bestContrastCellColor) ==
  IF k >= rect.shape.rows * rect.shape.cols
  THEN [maxContrast |-> maxContrast, bestContrastCellColor |-> bestContrastCellColor]
  ELSE ContrastOfCell(rect, cellStats, gridConfig, k, maxContrast, bestContrastCellColor,
                      cellStats[(rect.rStart + (k \div rect.shape.cols)) * gridConfig.cols
                                + rect.cStart + (k % rect.shape.cols) + 1].avgColor)

\* chosenTextColor once the scan has ended with best
ColorOfBestContrast(best, rectBgColor) ==
  IF best.bestContrastCellColor # <<>> /\ RLess(<<5, 2>>, best.maxContrast)
  THEN FormatRgb(RRound(best.bestContrastCellColor[1]),
                 RRound(best.bestContrastCellColor[2]),
                 RRound(best.bestContrastCellColor[3]))
  ELSE BlackOrWhite(rectBgColor)
ChooseTextColor(rect, cellStats, gridConfig, useAverageCellColorForText) ==
  IF useAverageCellColorForText
  THEN ColorOfBestContrast(ScanContrast(rect, cellStats, gridConfig, 0, RInt(0), <<>>),
                           rect.avgColor)
  ELSE BlackOrWhite(rect.avgColor)

\* textColorObject
TextColorOfMatch(match) ==
  IF match.ok
  THEN <<RInt(parseInt(match.groups[1]).val), RInt(parseInt(match.groups[2]).val),
         RInt(parseInt(match.groups[3]).val)>>
  ELSE <<RInt(0), RInt(0), RInt(0)>>
TextColorObject(chosenTextColor) ==
  IF chosenTextColor = StrBlack THEN <<RInt(0), RInt(0), RInt(0)>>
  ELSE IF chosenTextColor = StrWhite THEN <<RInt(255), RInt(255), RInt(255)>>
  ELSE TextColorOfMatch(MatchRgb(chosenTextColor))

\* fontSize
FontSizeOf(overallBestRect) ==
  RMax(RInt(12),
       RMin(RMin(RMul(RNorm(overallBestRect.height, overallBestRect.shape.rows), <<3, 5>>),
                 RMul(RInt(overallBestRect.height), <<3, 10>>)),
            RMul(RInt(overallBestRect.width), <<1, 5>>)))
\* The AnalysisResult built from the overall best rectangle and the text colour
ResultWithTextColor(overallBestRect, chosenTextColor) ==
  [rect |-> [x |-> overallBestRect.x, y |-> overallBestRect.y,
             width |-> overallBestRect.width, height |-> overallBestRect.height],
   textColor |-> chosenTextColor, fontSize |-> FontSizeOf(overallBestRect),
   avgBackgroundColor |-> overallBestRect.avgColor,
   aspectRatioName |-> overallBestRect.shape.name,
   actualCells |-> [rows |-> overallBestRect.shape.rows, cols |-> overallBestRect.shape.cols],
   rectBusyness |-> overallBestRect.avgBusyness,
   textContrastRatio |-> calculateContrastRatio(TextColorObject(chosenTextColor),
                                                overallBestRect.avgColor)]
BuildResult(overallBestRect, cellStats, gridConfig, useAverageCellColorForText) ==
  ResultWithTextColor(overallBestRect,
                      ChooseTextColor(overallBestRect, cellStats, gridConfig,
                                      useAverageCellColorForText))
\* The return for an empty shape set without its showError
ReturnNoShapes_Silent(analysisDataForHover) ==
  [analysisResultData |-> Null, analysisDataForHover |-> analysisDataForHover,
   shown |-> <<>>, statsComputed |-> TRUE,
   shapesToTest |-> <<>>, overallBestRect |-> Null]
\* The return for an empty shape set, after showError
ReturnNoShapes(analysisDataForHover) ==
  [analysisResultData |-> Null, analysisDataForHover |-> analysisDataForHover,
   shown |-> <<MsgNoShapes>>, statsComputed |-> TRUE,
   shapesToTest |-> <<>>, overallBestRect |-> Null]
\* The return when no shape gave a rectangle, without the hover data
ReturnNoCandidate_NoHover(analysisDataForHover, shapesToTest) ==
  [analysisResultData |-> Null, analysisDataForHover |-> Null,
   shown |-> <<>>, statsComputed |-> TRUE,
   shapesToTest |-> shapesToTest, overallBestRect |-> Null]
\* The return when no shape gave a rectangle (its showError is commented out)
ReturnNoCandidate(analysisDataForHover, shapesToTest) ==
  [analysisResultData |-> Null, analysisDataForHover |-> analysisDataForHover,
   shown |-> <<>>, statsComputed |-> TRUE,
   shapesToTest |-> shapesToTest, overallBestRect |-> Null]

\* analysisDataForHover
HoverData(imageData, gridConfig, cellWidthPx, cellHeightPx, currentCellStats) ==
  [stats |-> currentCellStats, gridConfig |-> gridConfig,
   cellWidthPx |-> cellWidthPx, cellHeightPx |-> cellHeightPx,
   canvasWidth |-> imageData.width, canvasHeight |-> imageData.height]
\* analyzeImageCore after the shape loop
AnalyzeWithRect(params, analysisDataForHover, shapesToTest, overallBestRect) ==
  IF overallBestRect = Null
  THEN ReturnNoCandidate(analysisDataForHover, shapesToTest)
  ELSE [analysisResultData |->
          BuildResult(overallBestRect, analysisDataForHover.stats, params.gridConfig,
                      params.useAverageCellColorForText),
        analysisDataForHover |-> analysisDataForHover,
        shown |-> <<>>, statsComputed |-> TRUE,
        shapesToTest |-> shapesToTest, overallBestRect |-> overallBestRect]
\* analyzeImageCore after the shapes were generated
AnalyzeWithShapes(params, analysisDataForHover, shapesToTest) ==
  IF Len(shapesToTest) = 0
  THEN ReturnNoShapes(analysisDataForHover)
  ELSE AnalyzeWithRect(params, analysisDataForHover, shapesToTest,
                       ScanShapes(shapesToTest, analysisDataForHover.stats,
                                  params.gridConfig, analysisDataForHover.cellWidthPx,
                                  analysisDataForHover.cellHeightPx,
                                  params.borderExclusionCells, 1, Null))
\* analyzeImageCore after the statistics loops
\* The shape bounds taken over the whole grid
EffectiveMax_WholeGrid(n, borderExclusionCells) == n
\* effectiveMaxRows, effectiveMaxCols
EffectiveMax(n, borderExclusionCells) == n - 2 * borderExclusionCells
AnalyzeWithStats(params, analysisDataForHover) ==
  AnalyzeWithShapes(params, analysisDataForHover,
                    generateShapesToTest(params.targetAreaValue,
                                         EffectiveMax(params.gridConfig.rows,
                                                      params.borderExclusionCells),
                                         EffectiveMax(params.gridConfig.cols,
                                                      params.borderExclusionCells)))
\* analyzeImageCore after cellWidthPx and cellHeightPx
AnalyzeWithGeometry(params, cellWidthPx, cellHeightPx) ==
  AnalyzeWithStats(params,
                   HoverData(params.imageData, params.gridConfig, cellWidthPx, cellHeightPx,
                             ComputeCellStats(params.imageData, params.gridConfig,
                                              cellWidthPx, cellHeightPx)))
\* analyzeImageCore.  Besides the two returned fields the record carries what the
\* call did and computed on the way: shown (the showError messages), statsComputed
\* (whether the statistics loops were reached), shapesToTest and overallBestRect.
analyzeImageCore(params) ==
  IF params.imageData.width = 0 \/ params.imageData.height = 0
  THEN [analysisResultData |-> Null, analysisDataForHover |-> Null, shown |-> <<>>,
        statsComputed |-> FALSE, shapesToTest |-> <<>>, overallBestRect |-> Null]
  ELSE AnalyzeWithGeometry(params,
                           DoubleQuotient(params.imageData.width, params.gridConfig.cols),
                           DoubleQuotient(params.imageData.height, params.gridConfig.rows))
\* ------------------------------------------------------------ text layout
TEXT_PADDING == 10
LINE_HEIGHT_MULTIPLIER == <<6, 5>>
MIN_RENDER_FONT_SIZE == 8
CONTRAST_THRESHOLD_FOR_SCRIM == <<4, 1>>
BUSYNESS_THRESHOLD_FOR_SCRIM == 500

\* ctx.measureText(s).width at font size font: the drawing surface is taken to
\* give every character, the blank included, half the font size
measureText(font, s) == RMul(font, <<Len(s), 2>>)

\* text.split(' ')
RECURSIVE SplitFrom(_, _)
SplitFrom(s, word) ==
  IF s = <<>> THEN <<word>>
  ELSE IF s[1] = " " THEN <<word>> \o SplitFrom(Tail(s), <<>>)
  ELSE SplitFrom(Tail(s), Append(word, s[1]))
Split(s) == SplitFrom(s, <<>>)
\* !text.trim()
TrimIsEmpty(s) == \A i \in 1..Len(s) : s[i] = " "

\* The loop of wrapTextCanvas from words[i] on (i is 1-based: the source's i + 1);
\* the result is the lines returned after the final push
RECURSIVE WrapLoop(_, _, _, _, _, _)
WrapLoop(font, words, maxWidth, i, lines, currentLine) ==
  IF i > Len(words)
  THEN IF currentLine # <<>> THEN Append(lines, currentLine) ELSE lines
  ELSE LET word == words[i]
           testLine == currentLine \o (IF currentLine # <<>> THEN <<" ">> ELSE <<>>) \o word
       IN IF RLess(measureText(font, testLine), maxWidth)
          THEN WrapLoop(font, words, maxWidth, i + 1, lines, testLine)
          ELSE LET lines1 == IF currentLine # <<>> THEN Append(lines, currentLine) ELSE lines
               IN IF RLess(maxWidth, measureText(font, word)) /\ Len(lines1) = 0
                  THEN Append(lines1, word)
                  ELSE WrapLoop(font, words, maxWidth, i + 1, lines1, word)

wrapTextCanvas(font, text, maxWidth) ==
  IF TrimIsEmpty(text) \/ ~RLess(RInt(0), maxWidth) THEN <<>>
  ELSE LET words == Split(text)
           currentLine == words[1]
       IN IF RLess(maxWidth, measureText(font, currentLine)) THEN <<currentLine>>
          ELSE WrapLoop(font, words, maxWidth, 2, <<>>, currentLine)

\* The scrim decision with both thresholds included
needsScrim_Inclusive(textContrastRatio, rectBusyness) ==
  ~RLess(CONTRAST_THRESHOLD_FOR_SCRIM, textContrastRatio)
  \/ ~RLess(rectBusyness, RInt(BUSYNESS_THRESHOLD_FOR_SCRIM))
\* needsScrim
needsScrim(textContrastRatio, rectBusyness) ==
  RLess(textContrastRatio, CONTRAST_THRESHOLD_FOR_SCRIM)
  \/ RLess(RInt(BUSYNESS_THRESHOLD_FOR_SCRIM), rectBusyness)

\* getLuminance of three parseInt results < 128: false as soon as one is NaN
ParsedLuminanceBelow128(pr, pg, pb) ==
  IF pr.nan \/ pg.nan \/ pb.nan THEN FALSE
  ELSE RLess(getLuminance(RInt(pr.val), RInt(pg.val), RInt(pb.val)), RInt(128))
OrZero(s) == IF s = <<>> THEN <<"0">> ELSE s
textIsDark(textColor) ==
  textColor = StrBlack
  \/ ParsedLuminanceBelow128(parseInt(OrZero(Substring(textColor, 4, 7))),
                             parseInt(OrZero(Substring(textColor, 9, 12))),
                             parseInt(OrZero(Substring(textColor, 14, 17))))

\* The scrim drawn by renderTextWithDynamicSizing, or Null
ScrimOf(currentAnalysisResult) ==
  IF needsScrim(currentAnalysisResult.textContrastRatio, currentAnalysisResult.rectBusyness)
  THEN [scrimBaseColor |-> IF textIsDark(currentAnalysisResult.textColor)
                           THEN "255,255,255" ELSE "0,0,0",
        scrimOpacity |-> IF RLess(currentAnalysisResult.textContrastRatio, <<5, 2>>)
                         THEN <<7, 10>>
                         ELSE IF RLess(currentAnalysisResult.textContrastRatio, <<7, 2>>)
                         THEN <<3, 5>> ELSE <<1, 2>>,
        rect |-> currentAnalysisResult.rect]
  ELSE Null

\* The font-fit loop from currentSize down: the fit found, or no lines.  font is
\* the size last written to ctx.font: the fitting size, or the last size tried
RECURSIVE FitLoop(_, _, _, _)
FitLoop(textToRender, currentSize, availableRectWidth, availableRectHeight) ==
  IF RLess(currentSize, RInt(MIN_RENDER_FONT_SIZE))
  THEN [font |-> RAdd(currentSize, RInt(1)), wrappedLines |-> <<>>,
        textBlockHeight |-> RInt(0)]
  ELSE LET lines == wrapTextCanvas(currentSize, textToRender, availableRectWidth)
           currentBlockHeight == RMul(RInt(Len(lines)), RMul(currentSize, LINE_HEIGHT_MULTIPLIER))
           linesFitWidth == \A k \in 1..Len(lines) :
                              ~RLess(availableRectWidth, measureText(currentSize, lines[k]))
       IN IF ~RLess(availableRectHeight, currentBlockHeight) /\ linesFitWidth
          THEN [font |-> currentSize, wrappedLines |-> lines,
                textBlockHeight |-> currentBlockHeight]
          ELSE FitLoop(textToRender, RSub(currentSize, RInt(1)), availableRectWidth,
                       availableRectHeight)

\* renderTextWithDynamicSizing: the draw calls made on ctx (font is Null when the
\* call leaves ctx.font alone)
renderTextWithDynamicSizing(textToRender, currentAnalysisResult, targetCanvasWidth, targetCanvasHeight) ==
  LET rect == currentAnalysisResult.rect
      availableRectWidth == RInt(rect.width - 2 * TEXT_PADDING)
      availableRectHeight == RInt(rect.height - 2 * TEXT_PADDING)
      renderFontSize0 ==
        RMax(RMin(RMin(currentAnalysisResult.fontSize, availableRectHeight),
                  RDivInt(availableRectWidth, 2)),
             RInt(MIN_RENDER_FONT_SIZE))
      fit == IF RLess(RInt(0), availableRectWidth) /\ RLess(RInt(0), availableRectHeight)
             THEN FitLoop(textToRender, renderFontSize0, availableRectWidth,
                          availableRectHeight)
             ELSE [font |-> Null, wrappedLines |-> <<>>,
                   textBlockHeight |-> RInt(0)]
      rectCenterX == RAdd(RInt(rect.x), <<rect.width, 2>>)
      rectCenterY == RAdd(RInt(rect.y), <<rect.height, 2>>)
      hAlign == IF RLess(rectCenterX, RMul(RInt(targetCanvasWidth), <<7, 20>>)) THEN "left"
                ELSE IF RLess(RMul(RInt(targetCanvasWidth), <<13, 20>>), rectCenterX)
                THEN "right" ELSE "center"
      vAlign == IF RLess(rectCenterY, RMul(RInt(targetCanvasHeight), <<7, 20>>)) THEN "top"
                ELSE IF RLess(RMul(RInt(targetCanvasHeight), <<13, 20>>), rectCenterY)
                THEN "bottom" ELSE "middle"
  IN [scrim |-> ScrimOf(currentAnalysisResult),
      fillStyle |-> currentAnalysisResult.textColor,
      fillText |-> fit.wrappedLines,
      font |-> fit.font,
      textAlign |-> IF Len(fit.wrappedLines) > 0 THEN hAlign ELSE "start",
      vAlign |-> IF Len(fit.wrappedLines) > 0 THEN vAlign ELSE "none"]

\* ------------------------------------------------------------------ state
VARIABLES
  imageData,                \* the pixel buffer read from the canvas (getImageData)
  gridConfig,               \* useState({rows, cols})
  neededAreaValue,          \* useState: target area in cells
  useAverageCellColor,      \* useState: checkbox
  borderExclusionCells,     \* useState
  userText,                 \* useState: the text to place
  isFullscreen,             \* useState
  analysisResult,           \* useState<AnalysisResult | null>
  analysisDataForHover,     \* useState<AnalysisDataForHover | null>
  fullscreenAnalysisResult, \* useState<AnalysisResult | null>
  toasts,                   \* what the handler that ran last showed (showError/showSuccess)
  canvasOps,                \* what renderTextWithDynamicSizing last drew on the main canvas
  fsCanvasOps,              \* the same for the fullscreen canvas
  core,                     \* the last analyzeImageCore call: its path, input and outcome
  wrapOut,                  \* the last direct wrapTextCanvas call: input and lines
  cellRanges,               \* cellX, cellY, cCellWidth, cCellHeight of the last statistics loops
  imageSrc,                 \* useState<string | null>: the uploaded file's data URL
  originalImage,            \* useState<HTMLImageElement | null>, as the pixels it decodes to
  isLoading,                \* useState(false)
  macrotasks,               \* callbacks the browser still owes: img.onload, setTimeout(..., 50)
  resizeTimer               \* the debounced resize handler: its timeout and the clock

vars == <<imageData, gridConfig, neededAreaValue, useAverageCellColor,
          borderExclusionCells, userText, isFullscreen, analysisResult,
          analysisDataForHover, fullscreenAnalysisResult, toasts, canvasOps,
          fsCanvasOps, core, wrapOut, cellRanges, imageSrc, originalImage, isLoading,
          macrotasks, resizeTimer>>

\* What the loading of images, the deferred analysis and the resize handler hold
extra == <<cellRanges, imageSrc, originalImage, isLoading, macrotasks, resizeTimer>>

inputs == <<imageData, gridConfig, neededAreaValue, useAverageCellColor,
            borderExclusionCells, userText>>

\* The pixel buffers of the given sizes over Colors (data is row-major: one colour per
\* pixel, pixel (x, y) at index y * width + x)
ImagesOfSize(w, h) ==
  {[width |-> w, height |-> h, data |-> d] : d \in [0..(w * h - 1) -> Colors]}
Images(maxPixels) ==
  UNION {UNION {ImagesOfSize(w, h) : h \in 1..(maxPixels \div w)} : w \in 1..maxPixels}
UniformImages(maxSide) ==
  {[width |-> w, height |-> h, data |-> [k \in 0..(w * h - 1) |-> col]] :
     w \in 1..maxSide, h \in 1..maxSide, col \in Colors}
\* A buffer with a zero dimension has no data
EmptyImages(maxSide) ==
  {[width |-> w, height |-> h, data |-> <<>>] :
     w \in 0..maxSide, h \in {0}} \cup
  {[width |-> w, height |-> h, data |-> <<>>] :
     w \in {0}, h \in 0..maxSide}

\* useState("Your Awesome Text Here")
DefaultUserText ==
  <<"Y","o","u","r"," ","A","w","e","s","o","m","e"," ","T","e","x","t"," ","H","e","r","e">>

\* The params object both call sites build
Params ==
  [imageData |-> imageData, gridConfig |-> gridConfig,
   targetAreaValue |-> neededAreaValue,
   useAverageCellColorForText |-> useAverageCellColor,
   borderExclusionCells |-> borderExclusionCells]

\* What is recorded of one analyzeImageCore call
CoreRecord(path, res) ==
  [path |-> path, analysisResultData |-> res.analysisResultData,
   analysisDataForHover |-> res.analysisDataForHover, shown |-> res.shown,
   statsComputed |-> res.statsComputed, shapesToTest |-> res.shapesToTest,
   overallBestRect |-> res.overallBestRect]
NoCall ==
  [path |-> "none", analysisResultData |-> Null, analysisDataForHover |-> Null,
   shown |-> <<>>, statsComputed |-> FALSE, shapesToTest |-> <<>>,
   overallBestRect |-> Null]

\* The main canvas effect with the mouse off the canvas: the text is drawn when
\* there is a result and a text
DrawMainCanvas(result, text, w, h) ==
  IF result # Null /\ text # <<>>
  THEN renderTextWithDynamicSizing(text, result, w, h)
  ELSE Null
\* The fullscreen canvas effect
DrawFullscreenCanvas(result, text, w, h) ==
  IF result # Null /\ text # <<>>
  THEN renderTextWithDynamicSizing(text, result, w, h)
  ELSE Null

\* No debounced call yet: let timeout = null
NoResizeTimer == [waitFor |-> 0, now |-> 0, timeout |-> Null, timers |-> {}, events |-> <<>>]
\* The image is loaded, nothing is pending
InitExtra ==
  /\ cellRanges = <<>>
  /\ imageSrc = imageData
  /\ originalImage = imageData
  /\ isLoading = FALSE
  /\ macrotasks = <<>>
  /\ resizeTimer = NoResizeTimer

\* The page after an image was loaded and before any analysis
InitOutputs ==
  /\ InitExtra
  /\ isFullscreen = FALSE
  /\ analysisResult = Null
  /\ analysisDataForHover = Null
  /\ fullscreenAnalysisResult = Null
  /\ toasts = <<>>
  /\ canvasOps = Null
  /\ fsCanvasOps = Null
  /\ core = NoCall
  /\ wrapOut = Null

\* ------------------------------------------------------------- the page
Init ==
  /\ imageData \in UNION {ImagesOfSize(w, 1) : w \in 1..PageMaxW}
  /\ gridConfig \in [rows : {1}, cols : 1..PageMaxCols]
  /\ neededAreaValue \in 1..MaxArea
  /\ useAverageCellColor \in BOOLEAN
  /\ borderExclusionCells \in 0..MaxBe
  /\ userText = DefaultUserText
  /\ InitOutputs

\* triggerAnalysis and its timeout callback, followed by the main canvas effect
TriggerAnalysis ==
  /\ ~isFullscreen
  /\ \E res \in {analyzeImageCore(Params)} :
       /\ analysisResult' = res.analysisResultData
       /\ analysisDataForHover' = res.analysisDataForHover
       /\ toasts' = res.shown \o (IF res.analysisResultData # Null
                                  THEN <<MsgSuccess>> ELSE <<MsgMainNull>>)
       /\ canvasOps' = DrawMainCanvas(res.analysisResultData, userText,
                                      imageData.width, imageData.height)
       /\ core' = CoreRecord("main", res)
  /\ UNCHANGED <<inputs, extra, isFullscreen, fullscreenAnalysisResult, fsCanvasOps, wrapOut>>

\* Entering fullscreen: the fullscreen analysis effect and the fullscreen canvas
\* effect, the viewport showing the same pixels; the main canvas effect returns
\* at once and leaves its canvas as it was
EnterFullscreen ==
  /\ ~isFullscreen
  /\ isFullscreen' = TRUE
  /\ \E res \in {analyzeImageCore(Params)} :
       /\ fullscreenAnalysisResult' = res.analysisResultData
       /\ toasts' = res.shown
       /\ fsCanvasOps' = DrawFullscreenCanvas(res.analysisResultData, userText,
                                              imageData.width, imageData.height)
       /\ core' = CoreRecord("fullscreen", res)
  /\ UNCHANGED <<inputs, extra, analysisResult, analysisDataForHover, canvasOps, wrapOut>>

\* Leaving fullscreen: the fullscreen result is cleared and the main canvas redrawn
ExitFullscreen ==
  /\ isFullscreen
  /\ isFullscreen' = FALSE
  /\ fullscreenAnalysisResult' = Null
  /\ fsCanvasOps' = Null
  /\ canvasOps' = DrawMainCanvas(analysisResult, userText, imageData.width, imageData.height)
  /\ UNCHANGED <<inputs, extra, analysisResult, analysisDataForHover, toasts, core, wrapOut>>

Next == TriggerAnalysis \/ EnterFullscreen \/ ExitFullscreen
Spec == Init /\ [][Next]_vars

\* ------------------------------------------- analyzeImageCore on its own
GridConfigs == [rows : 1..MaxRows, cols : 1..MaxCols]

InitCore ==
  /\ imageData \in Images(MaxPixels)
  /\ gridConfig \in GridConfigs
  /\ neededAreaValue \in 1..MaxArea
  /\ useAverageCellColor = FALSE
  /\ borderExclusionCells \in 0..MaxBe
  /\ userText = DefaultUserText
  /\ InitOutputs

\* One call of analyzeImageCore on the inputs
CallAnalyzeImageCore ==
  /\ core.path = "none"
  /\ \E res \in {analyzeImageCore(Params)} : core' = CoreRecord("call", res)
  /\ UNCHANGED <<inputs, extra, isFullscreen, analysisResult, analysisDataForHover,
                 fullscreenAnalysisResult, toasts, canvasOps, fsCanvasOps, wrapOut>>

NextCore == CallAnalyzeImageCore
SpecCore == InitCore /\ [][NextCore]_vars

\* Uniform images, up to MaxSide x MaxSide
InitUniform ==
  /\ imageData \in UniformImages(MaxSide)
  /\ gridConfig \in GridConfigs
  /\ neededAreaValue \in 1..MaxArea
  /\ useAverageCellColor \in BOOLEAN
  /\ borderExclusionCells \in 0..MaxBe
  /\ userText = DefaultUserText
  /\ InitOutputs
SpecUniform == InitUniform /\ [][NextCore]_vars

\* Arguments with a zero among the image and grid dimensions
InitEdge ==
  /\ imageData \in EmptyImages(MaxSide) \cup Images(MaxPixels)
  /\ gridConfig \in [rows : 0..MaxRows, cols : 0..MaxCols]
  /\ imageData.width = 0 \/ imageData.height = 0
     \/ gridConfig.rows = 0 \/ gridConfig.cols = 0
  /\ neededAreaValue \in 1..MaxArea
  /\ useAverageCellColor = FALSE
  /\ borderExclusionCells \in 0..MaxBe
  /\ userText = DefaultUserText
  /\ InitOutputs
SpecEdge == InitEdge /\ [][NextCore]_vars

\* ------------------------------------------- the grid over one-row images
\* One-row images: the first p pixels alternate between white and dark, the rest
\* is dark
StripedImage(w, p) ==
  [width |-> w, height |-> 1,
   data |-> [k \in 0..(w - 1) |-> IF k < p /\ k % 2 = 0 THEN White ELSE Dark]]
InitGrid ==
  /\ imageData \in UNION {{StripedImage(w, 0), StripedImage(w, (2 * w) \div 3)} : w \in 1..GridMaxW}
  /\ gridConfig \in [rows : {1}, cols : 1..GridMaxCols]
  /\ neededAreaValue \in {1, Max2(1, gridConfig.cols \div 3)}
  /\ useAverageCellColor = FALSE
  /\ borderExclusionCells = 0
  /\ userText = DefaultUserText
  /\ InitOutputs

\* One call of analyzeImageCore, the ranges of its cells recorded
CallAnalyzeOnGrid ==
  /\ core.path = "none"
  /\ \E res \in {analyzeImageCore(Params)} : core' = CoreRecord("call", res)
  /\ cellRanges' = CellRanges(imageData, gridConfig)
  /\ UNCHANGED <<inputs, imageSrc, originalImage, isLoading, macrotasks, resizeTimer,
                 isFullscreen, analysisResult, analysisDataForHover,
                 fullscreenAnalysisResult, toasts, canvasOps, fsCanvasOps, wrapOut>>

NextGrid == CallAnalyzeOnGrid
SpecGrid == InitGrid /\ [][NextGrid]_vars

\* ------------------------------------- uploads and the deferred analysis
MsgUploadFirst == "Please upload an image first."
MsgNoContext == "Could not get canvas context."
MsgFailed == "Analysis failed"

\* The params object the timeout callback builds from the image it draws
ParamsOf(img) ==
  [imageData |-> img, gridConfig |-> gridConfig,
   targetAreaValue |-> neededAreaValue,
   useAverageCellColorForText |-> useAverageCellColor,
   borderExclusionCells |-> borderExclusionCells]
\* A callback the browser owes, with the image its closure holds
Task(kind, img) == [kind |-> kind, img |-> img]
\* The pending callbacks without the i-th
Without(tasks, i) == SubSeq(tasks, 1, i - 1) \o SubSeq(tasks, i + 1, Len(tasks))
\* The canvas before anything was drawn on it
BlankCanvas == [width |-> 0, height |-> 0, data |-> <<>>]

\* The files the user picks: a dark and a white image of one pixel
UploadFiles == UniformImages(1)

\* The page as mounted: no image yet
InitMounted ==
  /\ imageData = BlankCanvas
  /\ gridConfig = [rows |-> 1, cols |-> 1]
  /\ neededAreaValue = 1
  /\ useAverageCellColor = FALSE
  /\ borderExclusionCells = 0
  /\ userText = DefaultUserText
  /\ isFullscreen = FALSE
  /\ analysisResult = Null
  /\ analysisDataForHover = Null
  /\ fullscreenAnalysisResult = Null
  /\ toasts = <<>>
  /\ canvasOps = Null
  /\ fsCanvasOps = Null
  /\ core = NoCall
  /\ wrapOut = Null
  /\ cellRanges = <<>>
  /\ imageSrc = Null
  /\ originalImage = Null
  /\ isLoading = FALSE
  /\ macrotasks = <<>>
InitUpload == InitMounted /\ resizeTimer = NoResizeTimer

\* handleImageUpload: a file is chosen and read; reader.onload is owed
handleImageUpload ==
  /\ Len(macrotasks) < MaxTasks
  /\ \E file \in UploadFiles :
       macrotasks' = Append(macrotasks, Task("reader.onload", file))
  /\ UNCHANGED <<inputs, cellRanges, imageSrc, originalImage, isLoading, resizeTimer,
                 isFullscreen, analysisResult, analysisDataForHover,
                 fullscreenAnalysisResult, toasts, canvasOps, fsCanvasOps, core, wrapOut>>

\* reader.onload: setImageSrc, and img.onload is owed
ReaderOnload ==
  \E i \in 1..Len(macrotasks) :
    /\ macrotasks[i].kind = "reader.onload"
    /\ imageSrc' = macrotasks[i].img
    /\ macrotasks' = Append(Without(macrotasks, i), Task("img.onload", macrotasks[i].img))
    /\ UNCHANGED <<inputs, cellRanges, originalImage, isLoading, resizeTimer,
                   isFullscreen, analysisResult, analysisDataForHover,
                   fullscreenAnalysisResult, toasts, canvasOps, fsCanvasOps, core, wrapOut>>

\* img.onload: the image becomes originalImage and the results are cleared
ImgOnload ==
  \E i \in 1..Len(macrotasks) :
    /\ macrotasks[i].kind = "img.onload"
    /\ originalImage' = macrotasks[i].img
    /\ analysisResult' = Null
    /\ analysisDataForHover' = Null
    /\ fullscreenAnalysisResult' = Null
    /\ canvasOps' = Null
    /\ macrotasks' = Without(macrotasks, i)
    /\ UNCHANGED <<inputs, cellRanges, imageSrc, isLoading, resizeTimer, isFullscreen,
                   toasts, fsCanvasOps, core, wrapOut>>

\* triggerAnalysis, from the Analyze button (disabled={!imageSrc || isLoading}): the
\* analysis is deferred by setTimeout(..., 50), its closure holding originalImage
triggerAnalysis ==
  /\ imageSrc # Null
  /\ ~isLoading
  /\ IF originalImage = Null
     THEN /\ toasts' = <<MsgUploadFirst>>
          /\ UNCHANGED <<isLoading, analysisResult, analysisDataForHover, canvasOps,
                         macrotasks>>
     ELSE /\ isLoading' = TRUE
          /\ analysisResult' = Null
          /\ analysisDataForHover' = Null
          /\ canvasOps' = Null
          /\ macrotasks' = Append(macrotasks, Task("timeout", originalImage))
          /\ UNCHANGED toasts
  /\ UNCHANGED <<inputs, cellRanges, imageSrc, originalImage, resizeTimer, isFullscreen,
                 fullscreenAnalysisResult, fsCanvasOps, core, wrapOut>>

\* isLoading after the callback, had the finally block been left out
LoadingAfter_NoFinally(outcome) == outcome = "throws"
\* isLoading after the callback: setIsLoading(false) on every way out
LoadingAfter(outcome) == FALSE

\* The timeout callback.  The canvas gives no context, or drawing or reading the
\* pixels throws, or the image the closure holds is analysed.
AnalysisTimeout ==
  \E i \in 1..Len(macrotasks), outcome \in {"no context", "throws", "analysed"} :
    /\ macrotasks[i].kind = "timeout"
    /\ macrotasks' = Without(macrotasks, i)
    /\ isLoading' = LoadingAfter(outcome)
    /\ IF outcome = "no context"
       THEN /\ toasts' = <<MsgNoContext>>
            /\ UNCHANGED <<imageData, analysisResult, analysisDataForHover, canvasOps, core>>
       ELSE IF outcome = "throws"
       THEN /\ toasts' = <<MsgFailed>>
            /\ UNCHANGED <<imageData, analysisResult, analysisDataForHover, canvasOps, core>>
       ELSE \E res \in {analyzeImageCore(ParamsOf(macrotasks[i].img))} :
              /\ imageData' = macrotasks[i].img
              /\ analysisResult' = res.analysisResultData
              /\ analysisDataForHover' = res.analysisDataForHover
              /\ toasts' = res.shown \o (IF res.analysisResultData # Null
                                         THEN <<MsgSuccess>> ELSE <<MsgMainNull>>)
              /\ canvasOps' = DrawMainCanvas(res.analysisResultData, userText,
                                             macrotasks[i].img.width,
                                             macrotasks[i].img.height)
              /\ core' = CoreRecord("main", res)
    /\ UNCHANGED <<gridConfig, neededAreaValue, useAverageCellColor, borderExclusionCells,
                   userText, cellRanges, imageSrc, originalImage, resizeTimer,
                   isFullscreen, fullscreenAnalysisResult, fsCanvasOps, wrapOut>>

NextUpload == handleImageUpload \/ ReaderOnload \/ ImgOnload \/ triggerAnalysis \/ AnalysisTimeout
\* The browser runs a timeout callback that is due
SpecUpload == InitUpload /\ [][NextUpload]_vars /\ WF_vars(AnalysisTimeout)

\* ------------------------------------------- the debounced resize handler
\* The arguments of a call: the resize event
ResizeEvents == {"e1", "e2"}
\* clearTimeout left out
ClearTimeout_Kept(timers, id) == timers
\* clearTimeout(timeout): the timer with that id (a handle [id |-> n]), if it is
\* still owed, is dropped
ClearTimeout(timers, id) == {t \in timers : t.id # id.id}
\* if (timeout) clearTimeout(timeout)
AfterClear(timers, id) == IF id # Null THEN ClearTimeout(timers, id) ELSE timers

\* useEffect: handleResize = debounce(func, waitFor); time is counted in ticks
InitResize ==
  /\ InitMounted
  /\ \E w \in 1..MaxWait : resizeTimer = [NoResizeTimer EXCEPT !.waitFor = w]

\* A call of the debounced function: the owed timer is cleared and a new one set
DebouncedCall ==
  /\ Len(SelectSeq(resizeTimer.events, LAMBDA ev : ev.kind = "call")) < MaxCalls
  /\ resizeTimer.now + resizeTimer.waitFor <= MaxTime
  /\ \E args \in ResizeEvents :
       resizeTimer' =
         [resizeTimer EXCEPT
            !.timers = AfterClear(resizeTimer.timers, resizeTimer.timeout)
                         \cup {[id |-> Len(resizeTimer.events) + 1,
                                due |-> resizeTimer.now + resizeTimer.waitFor,
                                args |-> args]},
            !.timeout = [id |-> Len(resizeTimer.events) + 1],
            !.events = Append(resizeTimer.events,
                              [kind |-> "call", at |-> resizeTimer.now, args |-> args])]
  /\ UNCHANGED <<inputs, cellRanges, imageSrc, originalImage, isLoading, macrotasks,
                 isFullscreen, analysisResult, analysisDataForHover,
                 fullscreenAnalysisResult, toasts, canvasOps, fsCanvasOps, core, wrapOut>>

\* The browser runs a timer callback, at its due time or later: func(...args)
TimerCallback ==
  /\ \E t \in resizeTimer.timers :
       /\ t.due <= resizeTimer.now
       /\ resizeTimer' =
            [resizeTimer EXCEPT
               !.timers = resizeTimer.timers \ {t},
               !.events = Append(resizeTimer.events,
                                 [kind |-> "func", at |-> resizeTimer.now, args |-> t.args])]
  /\ UNCHANGED <<inputs, cellRanges, imageSrc, originalImage, isLoading, macrotasks,
                 isFullscreen, analysisResult, analysisDataForHover,
                 fullscreenAnalysisResult, toasts, canvasOps, fsCanvasOps, core, wrapOut>>

\* Time passes
Tick ==
  /\ resizeTimer.now < MaxTime
  /\ resizeTimer' = [resizeTimer EXCEPT !.now = resizeTimer.now + 1]
  /\ UNCHANGED <<inputs, cellRanges, imageSrc, originalImage, isLoading, macrotasks,
                 isFullscreen, analysisResult, analysisDataForHover,
                 fullscreenAnalysisResult, toasts, canvasOps, fsCanvasOps, core, wrapOut>>

NextResize == DebouncedCall \/ TimerCallback \/ Tick
\* Time passes, and the browser runs a timer callback that is due
SpecResize == InitResize /\ [][NextResize]_vars /\ WF_vars(Tick) /\ WF_vars(TimerCallback)

\* ------------------------------------------------- text layout on its own
\* Texts over a letter and the blank
LayoutTexts == UNION {[1..n -> {"a", " "}] : n \in 0..MaxTextLen}
\* Analysis results as renderTextWithDynamicSizing receives them: rectangles whose
\* padded interior is empty, too small for two lines, or roomy; contrast and
\* busyness around the scrim thresholds
LayoutResults ==
  {[rect |-> [x |-> 0, y |-> 0, width |-> w, height |-> h],
    textColor |-> tc, fontSize |-> RInt(12),
    avgBackgroundColor |-> <<RInt(128), RInt(128), RInt(128)>>,
    aspectRatioName |-> ShapeName(1, 1),
    actualCells |-> [rows |-> 1, cols |-> 1],
    rectBusyness |-> b, textContrastRatio |-> cr] :
     w \in {20, 30, 60}, h \in {30, 60}, tc \in {StrBlack, StrWhite},
     b \in {RInt(500), RInt(501)}, cr \in {<<39, 10>>, <<4, 1>>, <<41, 10>>}}
\* The canvas the layout is drawn on; its pixels play no part
LayoutCanvas == [width |-> 100, height |-> 100, data |-> <<>>]

InitLayout ==
  /\ imageData = LayoutCanvas
  /\ gridConfig = [rows |-> 1, cols |-> 1]
  /\ neededAreaValue = 1
  /\ useAverageCellColor = FALSE
  /\ borderExclusionCells = 0
  /\ userText \in LayoutTexts
  /\ isFullscreen = FALSE
  /\ analysisResult \in LayoutResults
  /\ analysisDataForHover = Null
  /\ fullscreenAnalysisResult = Null
  /\ toasts = <<>>
  /\ canvasOps = Null
  /\ fsCanvasOps = Null
  /\ core = NoCall
  /\ wrapOut = Null
  /\ InitExtra

\* wrapTextCanvas under a font of size 2, every character one unit wide
WrapText ==
  /\ \E maxWidth \in 0..MaxWrapWidth :
       wrapOut' = [text |-> userText, maxWidth |-> maxWidth,
                   lines |-> wrapTextCanvas(RInt(2), userText, RInt(maxWidth))]
  /\ UNCHANGED <<inputs, extra, isFullscreen, analysisResult, analysisDataForHover,
                 fullscreenAnalysisResult, toasts, canvasOps, fsCanvasOps, core>>

\* renderTextWithDynamicSizing as the canvas effect calls it
RenderText ==
  /\ canvasOps' = renderTextWithDynamicSizing(userText, analysisResult,
                                              imageData.width, imageData.height)
  /\ UNCHANGED <<inputs, extra, isFullscreen, analysisResult, analysisDataForHover,
                 fullscreenAnalysisResult, toasts, fsCanvasOps, core, wrapOut>>

NextLayout == WrapText \/ RenderText
SpecLayout == InitLayout /\ [][NextLayout]_vars

\* ------------------------------------------------------------ properties
\* The mean busyness of the cells a shape covers at (rStart, cStart), from the
\* cell statistics
MeanBusyness(stats, shape, rStart, cStart) ==
  LET n == shape.rows * shape.cols
  IN RDivInt(RSum([k \in 1..n |->
                     stats[(rStart + ((k - 1) \div shape.cols)) * gridConfig.cols
                           + cStart + ((k - 1) % shape.cols) + 1].busyness]), n)
\* The (shape index, rStart, cStart) triples whose footprint keeps the border
TestedPairs(shapes) ==
  {p \in (1..Len(shapes)) \X (0..gridConfig.rows) \X (0..gridConfig.cols) :
     /\ borderExclusionCells <= p[2]
     /\ p[2] + shapes[p[1]].rows <= gridConfig.rows - borderExclusionCells
     /\ borderExclusionCells <= p[3]
     /\ p[3] + shapes[p[1]].cols <= gridConfig.cols - borderExclusionCells}
\* p is encountered before q: shapes in order, then rows, then columns
Before(p, q) ==
  \/ p[1] < q[1]
  \/ p[1] = q[1] /\ p[2] < q[2]
  \/ p[1] = q[1] /\ p[2] = q[2] /\ p[3] < q[3]
BestPair ==
  <<CHOOSE i \in 1..Len(core.shapesToTest) :
      core.shapesToTest[i] = core.overallBestRect.shape,
    core.overallBestRect.rStart, core.overallBestRect.cStart>>

\* C1: whenever analyzeImageCore returns a non-null result, the selected
\* rectangle's grid footprint satisfies be <= rStart, rStart + shape.rows <=
\* rows - be, be <= cStart and cStart + shape.cols <= cols - be.
C1_FootprintWithinBorder ==
  core.analysisResultData # Null =>
    LET best == core.overallBestRect
    IN /\ borderExclusionCells <= best.rStart
       /\ best.rStart + best.shape.rows <= gridConfig.rows - borderExclusionCells
       /\ borderExclusionCells <= best.cStart
       /\ best.cStart + best.shape.cols <= gridConfig.cols - borderExclusionCells
\* A result under a border exclusion of one cell, selected off the grid's edge
C1_Witness ==
  /\ core.path = "call"
  /\ core.analysisResultData # Null
  /\ borderExclusionCells = 1
  /\ core.overallBestRect.rStart = 1
  /\ core.overallBestRect.cStart = 1

\* C2: the returned rectangle's avgBusyness is the minimum average busyness over
\* all tested (shape, position) pairs, and among the pairs attaining the minimum
\* it is the first encountered, shapes in generation order and positions in
\* row-major order.
C2_MinimumFirstSeen ==
  core.analysisResultData # Null =>
    LET shapes == core.shapesToTest
        stats == core.analysisDataForHover.stats
        best == core.overallBestRect
        Busy(p) == MeanBusyness(stats, shapes[p[1]], p[2], p[3])
    IN /\ BestPair \in TestedPairs(shapes)
       /\ Busy(BestPair) = best.avgBusyness
       /\ \A p \in TestedPairs(shapes) :
            /\ ~RLess(Busy(p), best.avgBusyness)
            /\ Busy(p) = best.avgBusyness => ~Before(p, BestPair)
\* A result that is neither the first nor the last pair tested: a busier pair was
\* tested before it and an equally quiet one after it
C2_Witness ==
  /\ core.path = "call"
  /\ core.analysisResultData # Null
  /\ LET shapes == core.shapesToTest
         stats == core.analysisDataForHover.stats
         best == core.overallBestRect
         Busy(p) == MeanBusyness(stats, shapes[p[1]], p[2], p[3])
     IN /\ \E p \in TestedPairs(shapes) :
             Before(p, BestPair) /\ RLess(best.avgBusyness, Busy(p))
        /\ \E q \in TestedPairs(shapes) :
             Before(BestPair, q) /\ Busy(q) = best.avgBusyness
        /\ \E q \in TestedPairs(shapes) : q[1] # BestPair[1]

\* The words of a string: what is left between blanks
WordsOf(s) == SelectSeq(Split(s), LAMBDA w : w # <<>>)
\* lines.join(' ')
RECURSIVE JoinLines(_)
JoinLines(lines) ==
  IF lines = <<>> THEN <<>>
  ELSE IF Len(lines) = 1 THEN lines[1]
  ELSE lines[1] \o <<" ">> \o JoinLines(Tail(lines))

\* C3: for any input string and any positive max width, joining the lines
\* returned by wrapTextCanvas with single spaces reproduces the
\* whitespace-normalized input: every word appears exactly once, in order.
C3_WrapRoundTrip ==
  (wrapOut # Null /\ wrapOut.maxWidth > 0) =>
    WordsOf(JoinLines(wrapOut.lines)) = WordsOf(wrapOut.text)

\* The wrap of the text at the minimum font size within the padded rectangle
SmallestWrap ==
  wrapTextCanvas(RInt(MIN_RENDER_FONT_SIZE), userText,
                 RInt(analysisResult.rect.width - 2 * TEXT_PADDING))

\* C4: when the text is non-empty and no font size down to the minimum fits, the
\* wrap of the smallest size is still drawn with fillText: whenever that wrap
\* has lines, the text is not omitted.
C4_SmallestWrapDrawn ==
  (canvasOps # Null /\ SmallestWrap # <<>>) => canvasOps.fillText # <<>>

\* C5: whenever a scrim is drawn its colour is the inverse of the text's
\* lightness, for 'black', 'white' and 'rgb(R, G, B)' text colours: white when
\* the text colour's luminance is below 128 and black otherwise.
C5_ScrimInverseOfText ==
  \A ops \in {canvasOps, fsCanvasOps} :
    (ops # Null /\ ops.scrim # Null) =>
      LET col == TextColorObject(ops.fillStyle)
      IN ops.scrim.scrimBaseColor =
           IF RLess(getLuminance(col[1], col[2], col[3]), RInt(128))
           THEN "255,255,255" ELSE "0,0,0"

\* C6: the scrim rectangle is drawn over the result rect if and only if
\* textContrastRatio < 4.0 or rectBusyness > 500; none is drawn at 4.0 and 500.
C6_ScrimIffThresholds ==
  canvasOps # Null =>
    LET cr == analysisResult.textContrastRatio
        b == analysisResult.rectBusyness
    IN /\ (canvasOps.scrim # Null) <=> (cr[1] < 4 * cr[2] \/ b[1] > 500 * b[2])
       /\ canvasOps.scrim # Null => canvasOps.scrim.rect = analysisResult.rect
\* A rendering at exactly the two thresholds, without a scrim
C6_Witness ==
  /\ canvasOps # Null
  /\ analysisResult.textContrastRatio = <<4, 1>>
  /\ analysisResult.rectBusyness = <<500, 1>>
  /\ canvasOps.scrim = Null

\* The messages shown, as a set
Shown(msgs) == {msgs[i] : i \in 1..Len(msgs)}

C8_NullResultKeepsHover ==
  (core.path = "call" /\ (core.shapesToTest = <<>> \/ core.overallBestRect = Null)) =>
    /\ core.analysisResultData = Null
    /\ core.analysisDataForHover # Null
    /\ Len(core.analysisDataForHover.stats) = gridConfig.rows * gridConfig.cols
    /\ \A r \in 0..(gridConfig.rows - 1), c \in 0..(gridConfig.cols - 1) :
         core.analysisDataForHover.stats[r * gridConfig.cols + c + 1]
           = CellStatOf(imageData, gridConfig, r, c)
\* Shapes were generated and none found a rectangle; the hover data is there
C8_Witness ==
  /\ core.path = "call"
  /\ core.shapesToTest # <<>>
  /\ core.overallBestRect = Null
  /\ core.analysisResultData = Null
  /\ core.analysisDataForHover # Null
  /\ Len(core.analysisDataForHover.stats) > 1

\* C9: for a pixel buffer of width 0 or height 0, and for a grid with rows = 0
\* or cols = 0, analyzeImageCore aborts immediately: null result, no cell
\* statistics, no hover data.
C9_InvalidInputAborts ==
  (core.path = "call"
   /\ (imageData.width = 0 \/ imageData.height = 0
       \/ gridConfig.rows = 0 \/ gridConfig.cols = 0)) =>
    /\ core.analysisResultData = Null
    /\ core.analysisDataForHover = Null

\* Every cell has busyness 0 and the result is the first shape at (be, be)
UniformOutcome ==
  /\ \A i \in 1..Len(core.analysisDataForHover.stats) :
       core.analysisDataForHover.stats[i].busyness = RInt(0)
  /\ core.overallBestRect.shape = core.shapesToTest[1]
  /\ core.overallBestRect.rStart = borderExclusionCells
  /\ core.overallBestRect.cStart = borderExclusionCells
IsUniform == \A i, j \in DOMAIN imageData.data : imageData.data[i] = imageData.data[j]

CellsHolding(x, y) ==
  {i \in 1..Len(cellRanges) :
     /\ cellRanges[i].cellX <= x /\ x < cellRanges[i].cellX + cellRanges[i].cCellWidth
     /\ cellRanges[i].cellY <= y /\ y < cellRanges[i].cellY + cellRanges[i].cCellHeight}
\* C11: for every width >= 1, height >= 1, rows >= 1 and cols >= 1 the pixel
\* ranges of the cells partition the buffer exactly (every pixel lies in exactly
\* one cell), and the widths of any two cells differ by at most one pixel, and
\* so do their heights.
C11_CellsPartitionBuffer ==
  core.path = "call" =>
    /\ \A x \in 0..(imageData.width - 1), y \in 0..(imageData.height - 1) :
         Cardinality(CellsHolding(x, y)) = 1
    /\ \A i, j \in 1..Len(cellRanges) :
         /\ Abs(cellRanges[i].cCellWidth - cellRanges[j].cCellWidth) <= 1
         /\ Abs(cellRanges[i].cCellHeight - cellRanges[j].cCellHeight) <= 1

\* The cells (indexes into the statistics) without a pixel
EmptyCells == {i \in 1..Len(cellRanges) : cellRanges[i].cCellWidth * cellRanges[i].cCellHeight = 0}
\* The cells the selected rectangle covers
CoveredCells ==
  {i \in 1..Len(cellRanges) :
     /\ core.overallBestRect.rStart <= (i - 1) \div gridConfig.cols
     /\ (i - 1) \div gridConfig.cols < core.overallBestRect.rStart + core.overallBestRect.shape.rows
     /\ core.overallBestRect.cStart <= (i - 1) % gridConfig.cols
     /\ (i - 1) % gridConfig.cols < core.overallBestRect.cStart + core.overallBestRect.shape.cols}
\* C12: a cell that covers zero pixels gets busyness +infinity and avgColor
\* {0, 0, 0}, and no rectangle returned by analyzeImageCore covers such a cell.
C12_EmptyCellsNeverCovered ==
  core.path = "call" =>
    /\ \A i \in EmptyCells :
         /\ core.analysisDataForHover.stats[i].busyness = Infinity
         /\ core.analysisDataForHover.stats[i].avgColor = <<RInt(0), RInt(0), RInt(0)>>
    /\ core.analysisResultData # Null => CoveredCells \cap EmptyCells = {}
\* A rectangle was returned although some cells hold no pixel, one of them before
\* the rectangle in the scan
C12_Witness ==
  /\ core.path = "call"
  /\ core.analysisResultData # Null
  /\ \E i \in EmptyCells : i - 1 < core.overallBestRect.cStart

\* The addShape calls of the last analysis, and the first of them made for a shape
AttemptsMade ==
  ShapeAttempts(neededAreaValue, gridConfig.rows - 2 * borderExclusionCells,
                gridConfig.cols - 2 * borderExclusionCells)
FirstAttemptFor(shape) ==
  CHOOSE k \in 1..Len(AttemptsMade) :
    /\ AttemptsMade[k] = <<shape.rows, shape.cols>>
    /\ \A j \in 1..(k - 1) : AttemptsMade[j] # <<shape.rows, shape.cols>>
\* C13: generateShapesToTest never returns two entries with the same
\* (rows, cols), and the returned order is the order in which the shapes were
\* first inserted.
C13_ShapesDistinctInInsertionOrder ==
  core.path = "call" =>
    \A i, j \in 1..Len(core.shapesToTest) :
      i < j =>
        /\ <<core.shapesToTest[i].rows, core.shapesToTest[i].cols>>
             # <<core.shapesToTest[j].rows, core.shapesToTest[j].cols>>
        /\ \E k \in 1..Len(AttemptsMade) :
             AttemptsMade[k] = <<core.shapesToTest[i].rows, core.shapesToTest[i].cols>>
        /\ \E k \in 1..Len(AttemptsMade) :
             AttemptsMade[k] = <<core.shapesToTest[j].rows, core.shapesToTest[j].cols>>
        /\ FirstAttemptFor(core.shapesToTest[i]) < FirstAttemptFor(core.shapesToTest[j])
\* Several shapes were returned, and a later addShape call repeated the (rows,
\* cols) of a returned shape
C13_Witness ==
  /\ core.path = "call"
  /\ Len(core.shapesToTest) >= 2
  /\ \E i \in 1..Len(core.shapesToTest), k \in 1..Len(AttemptsMade) :
       /\ AttemptsMade[k] = <<core.shapesToTest[i].rows, core.shapesToTest[i].cols>>
       /\ k > FirstAttemptFor(core.shapesToTest[i])

\* The words of all returned lines
WordsReturned == WordsOf(JoinLines(wrapOut.lines))
\* C14: in wrapTextCanvas a non-first word that is wider than the maximum width
\* is emitted as a line of its own and wrapping continues with the next word:
\* every word after the overlong word still appears in the lines, for any input
\* text, a text beginning with a space included.
C14_OverlongWordKeepsRest ==
  (wrapOut # Null /\ wrapOut.maxWidth > 0) =>
    \A i \in 2..Len(Split(wrapOut.text)) :
      RLess(RInt(wrapOut.maxWidth), measureText(RInt(2), Split(wrapOut.text)[i])) =>
        /\ \E l \in 1..Len(wrapOut.lines) : wrapOut.lines[l] = Split(wrapOut.text)[i]
        /\ \A j \in (i + 1)..Len(Split(wrapOut.text)) :
             Split(wrapOut.text)[j] # <<>> =>
               \E k \in 1..Len(WordsReturned) : WordsReturned[k] = Split(wrapOut.text)[j]

\* C15: the page discards stale in-flight results: for any interleaving of
\* triggerAnalysis, its deferred callback and a new image finishing loading, the
\* stored analysisResult is never one computed from an image other than the
\* current originalImage.
C15_ResultOfCurrentImage ==
  analysisResult # Null =>
    /\ originalImage # Null
    /\ analysisResult = analyzeImageCore(ParamsOf(originalImage)).analysisResultData

\* The timeout callbacks still owed
PendingTimeouts == {i \in 1..Len(macrotasks) : macrotasks[i].kind = "timeout"}
\* C17: every triggerAnalysis that sets isLoading to true is eventually followed
\* by isLoading being false again, whether the deferred analysis succeeds,
\* returns null, finds no canvas context or throws; and while isLoading is true
\* no step starts a second analysis: the number of timeout callbacks owed does
\* not grow.
C17_LoadingEnds ==
  /\ isLoading ~> ~isLoading
  /\ [][isLoading => Cardinality(PendingTimeouts') <= Cardinality(PendingTimeouts)]_vars
\* The deferred analysis threw and isLoading is false again
C17_Witness ==
  /\ toasts = <<MsgFailed>>
  /\ ~isLoading
  /\ PendingTimeouts = {}

\* The calls and the runs of func so far, as indexes into the events
CallEvents == {k \in 1..Len(resizeTimer.events) : resizeTimer.events[k].kind = "call"}
FuncEvents == {k \in 1..Len(resizeTimer.events) : resizeTimer.events[k].kind = "func"}
\* The call before which no other event up to k is a call: the last call before k
LastCallBefore(k) == CHOOSE c \in CallEvents : c < k /\ \A d \in CallEvents : d < k => d <= c
\* Every run of func follows a call, is the only run since that call, has that
\* call's arguments and comes no earlier than waitFor after it
RunsFollowLastCall ==
  \A k \in FuncEvents :
    /\ \E c \in CallEvents : c < k
    /\ \A j \in FuncEvents : j < k => j < LastCallBefore(k)
    /\ resizeTimer.events[k].args = resizeTimer.events[LastCallBefore(k)].args
    /\ resizeTimer.events[k].at >= resizeTimer.events[LastCallBefore(k)].at + resizeTimer.waitFor
\* Calls c < d with no call between them
Consecutive(c, d) == c < d /\ \A e \in CallEvents : ~(c < e /\ e < d)
\* C16: a function wrapped by debounce(func, waitFor) is invoked at most once per
\* burst of calls: where each call arrives less than waitFor after the previous
\* one, func runs exactly once per burst, no earlier than waitFor after the
\* burst's last call and with that call's arguments, and never while a newer
\* call is pending.  A burst ends at a call that the next call follows by
\* waitFor or more.
C16_OncePerBurst ==
  /\ RunsFollowLastCall
  /\ \A c, d \in CallEvents :
       (Consecutive(c, d)
        /\ resizeTimer.events[d].at >= resizeTimer.events[c].at + resizeTimer.waitFor)
         => \E k \in FuncEvents : c < k /\ k < d
\* C16 as it holds: func runs at most once per burst, no earlier than waitFor
\* after the last call so far, with that call's arguments, never while a newer
\* call is pending; and after a call func does run unless another call arrives
\* before the timer callback has run.
C16_OnceAfterLastCall ==
  /\ []RunsFollowLastCall
  /\ \A n \in 1..(2 * MaxCalls) :
       (Len(resizeTimer.events) = n /\ resizeTimer.events[n].kind = "call")
         ~> (Len(resizeTimer.events) > n)
\* A burst of two calls less than waitFor apart was followed by one run of func
\* with the second call's arguments
C16_Witness ==
  /\ Len(resizeTimer.events) = 3
  /\ resizeTimer.events[1].kind = "call"
  /\ resizeTimer.events[2].kind = "call"
  /\ resizeTimer.events[2].at > resizeTimer.events[1].at
  /\ resizeTimer.events[2].at < resizeTimer.events[1].at + resizeTimer.waitFor
  /\ resizeTimer.events[2].args # resizeTimer.events[1].args
  /\ resizeTimer.events[3].kind = "func"
  /\ resizeTimer.events[3].args = resizeTimer.events[2].args
  /\ resizeTimer.timers = {}

\* The cells of ranges (the pixel ranges of the grid's cells) without a pixel
EmptyAmong(ranges) == {i \in 1..Len(ranges) : ranges[i].cCellWidth * ranges[i].cCellHeight = 0}
\* The cells (indexes into the statistics) under shape at (rStart, cStart)
FootprintOf(shape, rStart, cStart) ==
  {(rStart + dr) * gridConfig.cols + cStart + dc + 1 :
     dr \in 0..(shape.rows - 1), dc \in 0..(shape.cols - 1)}
\* Every position of every shape covers one of the cells in empty
AllPositionsCover(shapes, empty) ==
  \A p \in TestedPairs(shapes) : FootprintOf(shapes[p[1]], p[2], p[3]) \cap empty # {}
\* C18: every shape returned by generateShapesToTest(targetArea, rows - 2*be,
\* cols - 2*be) admits at least one scan position; when every cell covers at
\* least one pixel (width >= cols and height >= rows) and the shape set is not
\* empty the result is not null; and a null result with a non-empty shape set
\* occurs only when every position of every shape covers a cell without pixels.
C18_ShapesAdmitPositions ==
  core.path = "call" =>
    /\ \A i \in 1..Len(core.shapesToTest) :
         \E p \in TestedPairs(core.shapesToTest) : p[1] = i
    /\ (imageData.width >= gridConfig.cols /\ imageData.height >= gridConfig.rows
        /\ core.shapesToTest # <<>>)
         => core.analysisResultData # Null
    /\ (core.shapesToTest # <<>> /\ core.analysisResultData = Null)
         => AllPositionsCover(core.shapesToTest, EmptyAmong(CellRanges(imageData, gridConfig)))
\* Under a border of one cell: a result on a grid whose cells all hold a pixel
C18_Witness ==
  /\ core.path = "call"
  /\ borderExclusionCells = 1
  /\ imageData.width >= gridConfig.cols
  /\ imageData.height >= gridConfig.rows
  /\ core.shapesToTest # <<>>
  /\ core.analysisResultData # Null

\* C19: for every non-null result of analyzeImageCore the pixel rectangle lies
\* inside the image and inside the pixel footprint of the covered cells:
\* 0 <= x, 0 <= y, x + width <= floor((cStart + shape.cols) * cellWidthPx) <=
\* image width and y + height <= floor((rStart + shape.rows) * cellHeightPx) <=
\* image height.
C19_RectInsideFootprint ==
  (core.path = "call" /\ core.analysisResultData # Null) =>
    /\ 0 <= core.analysisResultData.rect.x
    /\ 0 <= core.analysisResultData.rect.y
    /\ core.analysisResultData.rect.x + core.analysisResultData.rect.width
         <= FloorOfProduct(core.overallBestRect.cStart + core.overallBestRect.shape.cols,
                           core.analysisDataForHover.cellWidthPx)
    /\ FloorOfProduct(core.overallBestRect.cStart + core.overallBestRect.shape.cols,
                      core.analysisDataForHover.cellWidthPx) <= imageData.width
    /\ core.analysisResultData.rect.y + core.analysisResultData.rect.height
         <= FloorOfProduct(core.overallBestRect.rStart + core.overallBestRect.shape.rows,
                           core.analysisDataForHover.cellHeightPx)
    /\ FloorOfProduct(core.overallBestRect.rStart + core.overallBestRect.shape.rows,
                      core.analysisDataForHover.cellHeightPx) <= imageData.height

====
